---- MODULE Spec2Model ----
(***************************************************************************)
(* zkTrust: verified-review submission, deduplication and aggregation.     *)
(*                                                                         *)
(* Two realizations are modelled from the sources:                         *)
(*   - the centralized backend (zktrust-backend/src/server.ts with the     *)
(*     sqlite table of database.ts), one process per HTTP request, split   *)
(*     at the points where the handler yields to the event loop;           *)
(*   - the ledger realization (ReviewStorage / ReviewRegistry contracts),  *)
(*     one atomic action per transaction.                                  *)
(* The variable `realization` selects which of the two a behaviour runs.   *)
(***************************************************************************)
EXTENDS Integers, Sequences, FiniteSets, TLC

(***************************************************************************)
(* Bounds of the model                                                     *)
(***************************************************************************)
MaxReqs == 3        \* HTTP requests the backend receives in one behaviour
MaxClock == 1       \* CURRENT_TIMESTAMP values 0..MaxClock
MaxReviews == 2     \* reviews stored over all ReviewStorage instances
MaxTime == 1        \* block.timestamp values 0..MaxTime
MaxProductCount == 2 \* cap on registerProduct calls that raise productCount

Reqs == 1..MaxReqs

(***************************************************************************)
(* JavaScript values of the request body (server.ts:155)                   *)
(***************************************************************************)
Undef == [t |-> "undefined", s |-> "", n |-> 0, int |-> TRUE]
Str(x) == [t |-> "string", s |-> x, n |-> 0, int |-> TRUE]
Num(x) == [t |-> "number", s |-> "", n |-> x, int |-> TRUE]
\* the non-integer number x + 0.5
Frac(x) == [t |-> "number", s |-> "", n |-> x, int |-> FALSE]

\* JavaScript truthiness, as used by `!v`
Truthy(v) ==
    CASE v.t = "undefined" -> FALSE
      [] v.t = "string" -> v.s # ""
      [] v.t = "number" -> (v.n # 0 \/ ~v.int)
      [] OTHER -> TRUE

\* Trim that leaves white space in place
Trim_KeepSpace(x) == x

\* String.prototype.trim on the strings of the model
Trim(x) == IF x \in {"", " ", "  "} THEN "" ELSE x

\* RatingInvalid without the upper limit of the range
RatingInvalid_NoUpperLimit(v) ==
    \/ v.t # "number"
    \/ v.n < 1
    \/ ~v.int

\* typeof rating !== 'number' || rating < 1 || rating > 5 || !Number.isInteger(rating)
\* (for x + 0.5: x + 0.5 < 1 iff x < 1, x + 0.5 > 5 iff x >= 5)
RatingInvalid(v) ==
    \/ v.t # "number"
    \/ IF v.int THEN v.n < 1 \/ v.n > 5 ELSE v.n < 1 \/ v.n >= 5
    \/ ~v.int

NULLIFIER_INDEX == 3

(***************************************************************************)
(* Inputs                                                                  *)
(***************************************************************************)
Nullifiers == {"N1", "N2"}

\* publicOutputs arrays: the nullifier sits at index NULLIFIER_INDEX (0-based)
Outputs(x) == <<Str("pk"), Str("ts"), Str("sig"), x>>

\* proofObject: present = the body has a truthy proofObject; hasProps,
\* outputsIsArray = the shape tests of server.ts:181; subject = the list
\* props.publicData.subject (<<>> when publicData or subject is absent).
Proof(outs, subj) ==
    [present |-> TRUE, hasProps |-> TRUE, outputsIsArray |-> TRUE,
     publicOutputs |-> outs, subject |-> subj]

GumroadId == "hackertron/GumroadProof@v2"

WellFormedBodies ==
    { [proofObject |-> Proof(Outputs(Str("N1")), <<"Widget">>), reviewText |-> Str("Great"),
       blueprintId |-> Str(GumroadId), rating |-> Num(5)],
      [proofObject |-> Proof(Outputs(Str("N2")), <<"Widget">>), reviewText |-> Str("Great"),
       blueprintId |-> Str(GumroadId), rating |-> Num(1)],
      [proofObject |-> Proof(Outputs(Str("N1")), <<>>), reviewText |-> Str(" ok "),
       blueprintId |-> Str("plain"), rating |-> Num(3)] }

BaseBody ==
    [proofObject |-> Proof(Outputs(Str("N1")), <<"Widget">>), reviewText |-> Str("Great"),
     blueprintId |-> Str(GumroadId), rating |-> Num(5)]

MalformedBodies ==
    { [BaseBody EXCEPT !.proofObject.present = FALSE],
      [BaseBody EXCEPT !.proofObject.hasProps = FALSE],
      [BaseBody EXCEPT !.proofObject.outputsIsArray = FALSE],
      [BaseBody EXCEPT !.proofObject.publicOutputs = <<Str("pk"), Str("ts"), Str("N1")>>],
      [BaseBody EXCEPT !.proofObject.publicOutputs = Outputs(Str(" "))],
      [BaseBody EXCEPT !.proofObject.publicOutputs = Outputs(Num(7))],
      [BaseBody EXCEPT !.reviewText = Undef],
      [BaseBody EXCEPT !.reviewText = Str("  ")],
      [BaseBody EXCEPT !.blueprintId = Undef],
      [BaseBody EXCEPT !.blueprintId = Num(2)],
      [BaseBody EXCEPT !.rating = Num(0)],
      [BaseBody EXCEPT !.rating = Num(6)],
      [BaseBody EXCEPT !.rating = Frac(2)],
      [BaseBody EXCEPT !.rating = Str("5")],
      [BaseBody EXCEPT !.rating = Undef] }

Bodies == WellFormedBodies \cup MalformedBodies

NoBody == [BaseBody EXCEPT !.proofObject.present = FALSE, !.reviewText = Undef,
                           !.blueprintId = Undef, !.rating = Undef]

\* outcomes of `await sdk.getBlueprint(..)` / `await blueprint.verifyProof(..)`
VerifierOutcomes == {"valid", "invalid", "throws"}

(***************************************************************************)
(* The reviews table                                                       *)
(***************************************************************************)
\* columns created by initializeDb of zktrust-backend/src/database.ts
LegacyColumns ==
    {"id", "productName", "reviewText", "isVerified", "emailNullifier", "createdAt"}

\* columns created by the initializeDb that declares the rating column
RatedColumns ==
    LegacyColumns \cup {"serviceName", "blueprintId", "rating", "starknetVerified", "starknetTxHash"}

\* columns named by the INSERT of server.ts:273
InsertColumns ==
    {"productName", "reviewText", "isVerified", "emailNullifier", "serviceName",
     "blueprintId", "rating"}

VARIABLES
    realization,  \* "centralized" or "ledger"
    tableColumns, \* columns of the reviews table on disk
    rows,         \* the reviews table, in insertion order
    clock,        \* CURRENT_TIMESTAMP
    req,          \* per request: position in submitReview and its locals
    resp          \* per request: the response sent (status 0 = none yet)

backendVars == <<tableColumns, rows, clock, req, resp>>

VARIABLES
    stor,            \* state of each ReviewStorage instance
    storageContract, \* ReviewRegistry.storageContract
    productCount,    \* ReviewRegistry.productCount
    products,        \* ReviewRegistry.products
    reviewers,       \* ReviewRegistry.reviewers
    services,        \* ReviewRegistry.services
    blockTime,       \* block.timestamp
    submitted,       \* nullifiers of the committed ReviewRegistry.submitReview transactions
    verifiedProofs   \* nullifiers of the proofs the SDK verifier accepted

ledgerVars == <<stor, storageContract, productCount, products, reviewers, services,
                blockTime, submitted, verifiedProofs>>

NoResp == [status |-> 0, message |-> "", reviewId |-> 0, productName |-> ""]
Reply(st, msg) == [status |-> st, message |-> msg, reviewId |-> 0, productName |-> ""]

IdleReq == [pc |-> "idle", body |-> NoBody, isValid |-> FALSE]

\* const emailNullifier = publicOutputs[NULLIFIER_INDEX]   (server.ts:208)
EmailNullifier(body) == body.proofObject.publicOutputs[NULLIFIER_INDEX + 1]

\* server.ts:249-257
ProductName(body) ==
    IF Len(body.proofObject.subject) > 0 THEN body.proofObject.subject[1]
    ELSE "Unknown Product"

\* blueprintId.match(/\w+\/(\w+)@/)   (server.ts:262-269)
ServiceName(bid) ==
    IF bid = GumroadId THEN "GumroadProof" ELSE "Unknown Service"

\* SELECT id FROM reviews WHERE emailNullifier = ?
RowsWithNullifier(nf) == {i \in 1..Len(rows) : rows[i].emailNullifier = nf}

\* Validate without the test of the value at NULLIFIER_INDEX
Validate_NoNullifierTest(body) ==
    IF \/ ~body.proofObject.present
       \/ ~Truthy(body.reviewText)
       \/ body.reviewText.t # "string"
       \/ Trim(body.reviewText.s) = ""
    THEN Reply(400, "Proof object and review text are required.")
    ELSE IF ~Truthy(body.blueprintId) \/ body.blueprintId.t # "string"
    THEN Reply(400, "Blueprint ID is required.")
    ELSE IF RatingInvalid(body.rating)
    THEN Reply(400, "Invalid rating value. Must be an integer between 1 and 5.")
    ELSE IF ~body.proofObject.hasProps \/ ~body.proofObject.outputsIsArray
    THEN Reply(400, "Malformed proof object received (missing props or publicOutputs).")
    ELSE IF Len(body.proofObject.publicOutputs) <= NULLIFIER_INDEX
    THEN Reply(400, "Invalid proof: Not enough public outputs")
    ELSE NoResp

\* The synchronous validation of submitReview (server.ts:155-216): the
\* response it sends, or NoResp when the request goes on to the lookup.
Validate(body) ==
    IF \/ ~body.proofObject.present
       \/ ~Truthy(body.reviewText)
       \/ body.reviewText.t # "string"
       \/ Trim(body.reviewText.s) = ""
    THEN Reply(400, "Proof object and review text are required.")
    ELSE IF ~Truthy(body.blueprintId) \/ body.blueprintId.t # "string"
    THEN Reply(400, "Blueprint ID is required.")
    ELSE IF RatingInvalid(body.rating)
    THEN Reply(400, "Invalid rating value. Must be an integer between 1 and 5.")
    ELSE IF ~body.proofObject.hasProps \/ ~body.proofObject.outputsIsArray
    THEN Reply(400, "Malformed proof object received (missing props or publicOutputs).")
    ELSE IF Len(body.proofObject.publicOutputs) <= NULLIFIER_INDEX
    THEN Reply(400, "Invalid proof: Not enough public outputs")
    ELSE IF \/ ~Truthy(EmailNullifier(body))
            \/ EmailNullifier(body).t # "string"
            \/ Trim(EmailNullifier(body).s) = ""
    THEN Reply(400, "Invalid proof: Nullifier missing or invalid at expected index")
    ELSE NoResp

\* Receive that goes to the verifier without the SELECT
Receive_SkipLookup(r, body) ==
    /\ realization = "centralized"
    /\ req[r].pc = "idle"
    /\ LET v == Validate(body) IN
         IF v.status # 0
         THEN /\ req' = [req EXCEPT ![r] = [pc |-> "done", body |-> NoBody, isValid |-> FALSE]]
              /\ resp' = [resp EXCEPT ![r] = v]
         ELSE /\ req' = [req EXCEPT ![r] = [pc |-> "verify", body |-> body, isValid |-> FALSE]]
              /\ resp' = resp
    /\ UNCHANGED <<realization, ledgerVars, tableColumns, rows, clock>>

\* POST /api/submit-review arrives: server.ts:149-219, up to the db.get call
Receive(r, body) ==
    /\ realization = "centralized"
    /\ req[r].pc = "idle"
    /\ LET v == Validate(body) IN
         IF v.status # 0
         THEN \* rejected before any local of the later steps is bound
              /\ req' = [req EXCEPT ![r] = [pc |-> "done", body |-> NoBody, isValid |-> FALSE]]
              /\ resp' = [resp EXCEPT ![r] = v]
         ELSE /\ req' = [req EXCEPT ![r] = [pc |-> "lookup", body |-> body, isValid |-> FALSE]]
              /\ resp' = resp
    /\ UNCHANGED <<realization, ledgerVars, tableColumns, rows, clock>>

\* Lookup that takes the nullifier for new whatever the SELECT returned
Lookup_IgnoreRow(r) ==
    /\ realization = "centralized"
    /\ req[r].pc = "lookup"
    /\ req' = [req EXCEPT ![r].pc = "verify"]
    /\ resp' = resp
    /\ UNCHANGED <<realization, ledgerVars, tableColumns, rows, clock>>

\* the db.get callback, server.ts:219-233
Lookup(r) ==
    /\ realization = "centralized"
    /\ req[r].pc = "lookup"
    /\ IF RowsWithNullifier(EmailNullifier(req[r].body).s) # {}
       THEN /\ req' = [req EXCEPT ![r].pc = "done"]
            /\ resp' = [resp EXCEPT ![r] =
                   Reply(409, "Review already submitted for this purchase email.")]
       ELSE /\ req' = [req EXCEPT ![r].pc = "verify"]
            /\ resp' = resp
    /\ UNCHANGED <<realization, ledgerVars, tableColumns, rows, clock>>

\* Verify that goes on to the INSERT when verifyProof returned false
Verify_IgnoreResult(r, outcome) ==
    /\ realization = "centralized"
    /\ req[r].pc = "verify"
    /\ IF outcome = "throws"
       THEN /\ req' = [req EXCEPT ![r].pc = "done"]
            /\ resp' = [resp EXCEPT ![r] = Reply(500, "Error during verification process.")]
       ELSE /\ req' = [req EXCEPT ![r].pc = "insert", ![r].isValid = (outcome = "valid")]
            /\ resp' = resp
    /\ UNCHANGED <<realization, ledgerVars, tableColumns, rows, clock>>

\* Verify without the return after the answer to a rejected proof
Verify_NoReturn(r, outcome) ==
    /\ realization = "centralized"
    /\ req[r].pc = "verify"
    /\ CASE outcome = "throws" ->
              /\ req' = [req EXCEPT ![r].pc = "done"]
              /\ resp' = [resp EXCEPT ![r] = Reply(500, "Error during verification process.")]
         [] outcome = "invalid" ->
              /\ req' = [req EXCEPT ![r].pc = "insert"]
              /\ resp' = [resp EXCEPT ![r] = Reply(400, "Proof verification failed.")]
         [] outcome = "valid" ->
              /\ req' = [req EXCEPT ![r].pc = "insert", ![r].isValid = TRUE]
              /\ resp' = resp
    /\ UNCHANGED <<realization, ledgerVars, tableColumns, rows, clock>>

\* the awaited verifier calls resolve or reject, server.ts:235-276 and 296-299
Verify(r, outcome) ==
    /\ realization = "centralized"
    /\ req[r].pc = "verify"
    /\ CASE outcome = "throws" ->
              /\ req' = [req EXCEPT ![r].pc = "done"]
              /\ resp' = [resp EXCEPT ![r] = Reply(500, "Error during verification process.")]
         [] outcome = "invalid" ->
              /\ req' = [req EXCEPT ![r].pc = "done"]
              /\ resp' = [resp EXCEPT ![r] = Reply(400, "Proof verification failed.")]
         [] outcome = "valid" ->
              /\ req' = [req EXCEPT ![r].pc = "insert", ![r].isValid = TRUE]
              /\ resp' = resp
    /\ UNCHANGED <<realization, ledgerVars, tableColumns, rows, clock>>

\* the row written by db.run(insertSql, [...]) (server.ts:272-276); columns
\* the INSERT does not name take their defaults
NewRow(r) ==
    [id |-> Len(rows) + 1,
     productName |-> ProductName(req[r].body),
     reviewText |-> req[r].body.reviewText.s,
     isVerified |-> TRUE,
     emailNullifier |-> EmailNullifier(req[r].body).s,
     serviceName |-> ServiceName(req[r].body.blueprintId.s),
     blueprintId |-> req[r].body.blueprintId.s,
     rating |-> req[r].body.rating.n,
     createdAt |-> clock,
     by |-> r]

\* InsertError for a table whose emailNullifier column is not UNIQUE
InsertError_NoUnique(row) ==
    IF ~(InsertColumns \subseteq tableColumns)
    THEN "table reviews has no column named serviceName"
    ELSE IF ~(row.rating >= 1 /\ row.rating <= 5)
    THEN "CHECK constraint failed: reviews"
    ELSE ""

\* the error sqlite reports for the INSERT, "" when the row is stored
InsertError(row) ==
    IF ~(InsertColumns \subseteq tableColumns)
    THEN "table reviews has no column named serviceName"
    ELSE IF RowsWithNullifier(row.emailNullifier) # {}
    THEN "UNIQUE constraint failed: reviews.emailNullifier"
    ELSE IF ~(row.rating >= 1 /\ row.rating <= 5)
    THEN "CHECK constraint failed: reviews"
    ELSE ""

\* insertErr.message.includes('UNIQUE constraint failed')
IsUniqueViolation(msg) == msg = "UNIQUE constraint failed: reviews.emailNullifier"

\* Insert that stores the row before looking at the error
Insert_StoreThenCheck(r) ==
    /\ realization = "centralized"
    /\ req[r].pc = "insert"
    /\ LET row == NewRow(r)
           err == InsertError(row) IN
         /\ rows' = IF InsertColumns \subseteq tableColumns THEN Append(rows, row) ELSE rows
         /\ resp' = [resp EXCEPT ![r] =
                IF err = ""
                THEN [status |-> 200, message |-> "Review submitted and verified!",
                      reviewId |-> row.id, productName |-> row.productName]
                ELSE IF IsUniqueViolation(err)
                THEN Reply(409, "Review already submitted (race condition).")
                ELSE Reply(500, "Failed to save review.")]
    /\ req' = [req EXCEPT ![r].pc = "done"]
    /\ UNCHANGED <<realization, ledgerVars, tableColumns, clock>>

\* db.run executes the INSERT and calls back, server.ts:276-294
Insert(r) ==
    /\ realization = "centralized"
    /\ req[r].pc = "insert"
    /\ LET row == NewRow(r)
           err == InsertError(row) IN
         /\ rows' = IF err = "" THEN Append(rows, row) ELSE rows
         /\ resp' = [resp EXCEPT ![r] =
                IF err = ""
                THEN [status |-> 200, message |-> "Review submitted and verified!",
                      reviewId |-> row.id, productName |-> row.productName]
                ELSE IF IsUniqueViolation(err)
                THEN Reply(409, "Review already submitted (race condition).")
                ELSE Reply(500, "Failed to save review.")]
    /\ req' = [req EXCEPT ![r].pc = "done"]
    /\ UNCHANGED <<realization, ledgerVars, tableColumns, clock>>

\* bodies posted to /api/verify-gumroad-proof: only proofObject and
\* blueprintId are read
VerifyBodies ==
    { BaseBody,
      [BaseBody EXCEPT !.proofObject.subject = <<>>],
      [BaseBody EXCEPT !.proofObject.present = FALSE],
      [BaseBody EXCEPT !.blueprintId = Undef] }

\* the response of verifyGumroadProof (server.ts:62-146)
VerifyGumroadProofResponse(body, outcome) ==
    IF ~body.proofObject.present
    THEN Reply(400, "Proof object is required")
    ELSE IF ~Truthy(body.blueprintId) \/ body.blueprintId.t # "string"
    THEN Reply(400, "Blueprint ID is required")
    ELSE IF outcome = "throws"
    THEN Reply(500, "Error during verification")
    ELSE IF outcome = "invalid"
    THEN Reply(400, "Proof verification failed")
    ELSE [status |-> 200, message |-> "", reviewId |-> 0, productName |-> ProductName(body)]

\* VerifyGumroadProof that stores a row for the nullifier of an accepted proof
VerifyGumroadProof_ReserveNullifier(r, body, outcome) ==
    /\ realization = "centralized"
    /\ req[r].pc = "idle"
    /\ req' = [req EXCEPT ![r] = [pc |-> "done", body |-> NoBody, isValid |-> FALSE]]
    /\ resp' = [resp EXCEPT ![r] = VerifyGumroadProofResponse(body, outcome)]
    /\ rows' = IF VerifyGumroadProofResponse(body, outcome).status = 200
                  /\ RowsWithNullifier(EmailNullifier(body).s) = {}
               THEN Append(rows,
                      [id |-> Len(rows) + 1, productName |-> ProductName(body),
                       reviewText |-> "", isVerified |-> TRUE,
                       emailNullifier |-> EmailNullifier(body).s,
                       serviceName |-> "", blueprintId |-> "", rating |-> 1,
                       createdAt |-> clock, by |-> r])
               ELSE rows
    /\ UNCHANGED <<realization, ledgerVars, tableColumns, clock>>

\* POST /api/verify-gumroad-proof, from arrival to its response: the handler
\* touches neither db nor any state shared with submitReview, so its awaits
\* are not split
VerifyGumroadProof(r, body, outcome) ==
    /\ realization = "centralized"
    /\ req[r].pc = "idle"
    /\ req' = [req EXCEPT ![r] = [pc |-> "done", body |-> NoBody, isValid |-> FALSE]]
    /\ resp' = [resp EXCEPT ![r] = VerifyGumroadProofResponse(body, outcome)]
    /\ UNCHANGED <<realization, ledgerVars, tableColumns, rows, clock>>

\* columns named by the SELECT of GET /api/reviews (server.ts:310)
ListColumns ==
    {"id", "productName", "reviewText", "isVerified", "createdAt", "serviceName", "rating"}

\* GET /api/reviews: the arrays a 200 response may carry. The statement is
\* SELECT ... FROM reviews ORDER BY createdAt DESC: rows come by descending
\* createdAt, and SQL leaves the order of rows with equal createdAt open.
\* The set is empty when the SELECT fails (answered 500).
ReviewsListings ==
    IF ~(ListColumns \subseteq tableColumns) THEN {}
    ELSE LET n == Len(rows)
             Orders == {q \in [1..n -> 1..n] :
                          /\ \A a, b \in 1..n : a # b => q[a] # q[b]
                          /\ \A a, b \in 1..n :
                                a < b => rows[q[a]].createdAt >= rows[q[b]].createdAt}
         IN {[k \in 1..n |-> rows[q[k]]] : q \in Orders}

\* time passes
Tick ==
    /\ realization = "centralized"
    /\ clock < MaxClock
    /\ clock' = clock + 1
    /\ UNCHANGED <<realization, ledgerVars, tableColumns, rows, req, resp>>

InitBackend ==
    /\ tableColumns \in {LegacyColumns, RatedColumns}
    /\ rows = <<>>
    /\ clock = 0
    /\ req = [r \in Reqs |-> IdleReq]
    /\ resp = [r \in Reqs |-> NoResp]

NextBackend ==
    \/ \E r \in Reqs, body \in Bodies : Receive(r, body)
    \/ \E r \in Reqs : Lookup(r)
    \/ \E r \in Reqs, o \in VerifierOutcomes : Verify(r, o)
    \/ \E r \in Reqs : Insert(r)
    \/ Tick

\* both POST routes of the backend, with well-formed review submissions
NextVerify ==
    \/ \E r \in Reqs, body \in WellFormedBodies : Receive(r, body)
    \/ \E r \in Reqs : Lookup(r)
    \/ \E r \in Reqs, o \in VerifierOutcomes : Verify(r, o)
    \/ \E r \in Reqs : Insert(r)
    \/ \E r \in Reqs, body \in VerifyBodies, o \in VerifierOutcomes :
          VerifyGumroadProof(r, body, o)

(***************************************************************************)
(* Ledger realization: ReviewStorage and ReviewRegistry                    *)
(* A transaction that reverts leaves every variable unchanged; its revert  *)
(* reason is the value of the ...Status operator in the state it ran in.   *)
(***************************************************************************)
ZeroAddress == "0x0"          \* address(0)
ZeroId == "0x00"              \* bytes32(0)
Owner == "Owner"              \* deployer of the contracts, their Ownable owner
Accounts == {Owner, "A1"}     \* externally owned accounts that send transactions
Storages == {"S1", "S2"}      \* deployed ReviewStorage instances
ProductIds == {ZeroId, "P1"}
Contents == {"", "good"}
RatingInputs == {0, 1, 5, 6}  \* uint8 values around the accepted range
ServiceNames == {"Gumroad"}
NameInputs == {"", "Gumroad"}
ProvenNullifiers == {"N1"}    \* nullifiers for which a valid proof exists

NoProduct == [id |-> ZeroId, name |-> "", manufacturer |-> "", totalRating |-> 0, reviewCount |-> 0]
NoReviewer == [addr |-> ZeroAddress, reputation |-> 0, reviewCount |-> 0]
NoService == [name |-> "", domain |-> "", isSupported |-> FALSE]

EmptyStorage ==
    [reviewCount |-> 0,
     reviews |-> <<>>,
     productReviews |-> [p \in ProductIds |-> <<>>],
     reviewerReviews |-> [a \in Accounts |-> <<>>],
     usedNullifiers |-> {}]

TotalReviews == stor["S1"].reviewCount + stor["S2"].reviewCount

\* AddReviewStatus without the usedNullifiers check
AddReviewStatus_NoNullifierCheck(st, reviewerAddress, rating, nullifier) ==
    IF reviewerAddress = ZeroAddress THEN "Reviewer address cannot be zero"
    ELSE IF ~(rating >= 1 /\ rating <= 5) THEN "Rating must be between 1 and 5"
    ELSE "ok"

\* the require statements of ReviewStorage.addReview, in order: the revert
\* reason, "ok" when the call goes through
AddReviewStatus(st, reviewerAddress, rating, nullifier) ==
    IF reviewerAddress = ZeroAddress THEN "Reviewer address cannot be zero"
    ELSE IF ~(rating >= 1 /\ rating <= 5) THEN "Rating must be between 1 and 5"
    ELSE IF nullifier \in st.usedNullifiers THEN "Storage: Nullifier already used"
    ELSE "ok"

\* AddReview that stores the review without marking its nullifier
AddReview_NoReservation(st, productId, reviewerAddress, content, rating, nullifier, serviceName) ==
    LET newReviewId == st.reviewCount + 1 IN
    [reviewCount |-> newReviewId,
     reviews |-> Append(st.reviews,
         [id |-> newReviewId, productId |-> productId,
          reviewer |-> reviewerAddress, content |-> content,
          rating |-> rating, nullifier |-> nullifier,
          timestamp |-> blockTime, serviceName |-> serviceName]),
     productReviews |-> [st.productReviews EXCEPT ![productId] = Append(@, newReviewId)],
     reviewerReviews |-> [st.reviewerReviews EXCEPT ![reviewerAddress] = Append(@, newReviewId)],
     usedNullifiers |-> st.usedNullifiers]

\* AddReview that indexes the review under its product only
AddReview_NoReviewerIndex(st, productId, reviewerAddress, content, rating, nullifier, serviceName) ==
    LET newReviewId == st.reviewCount + 1 IN
    [reviewCount |-> newReviewId,
     reviews |-> Append(st.reviews,
         [id |-> newReviewId, productId |-> productId,
          reviewer |-> reviewerAddress, content |-> content,
          rating |-> rating, nullifier |-> nullifier,
          timestamp |-> blockTime, serviceName |-> serviceName]),
     productReviews |-> [st.productReviews EXCEPT ![productId] = Append(@, newReviewId)],
     reviewerReviews |-> st.reviewerReviews,
     usedNullifiers |-> st.usedNullifiers \cup {nullifier}]

\* AddReview that takes the id before reviewCount is incremented
AddReview_IdBeforeIncrement(st, productId, reviewerAddress, content, rating, nullifier, serviceName) ==
    LET newReviewId == st.reviewCount IN
    [reviewCount |-> st.reviewCount + 1,
     reviews |-> Append(st.reviews,
         [id |-> newReviewId, productId |-> productId,
          reviewer |-> reviewerAddress, content |-> content,
          rating |-> rating, nullifier |-> nullifier,
          timestamp |-> blockTime, serviceName |-> serviceName]),
     productReviews |-> [st.productReviews EXCEPT ![productId] = Append(@, newReviewId)],
     reviewerReviews |-> [st.reviewerReviews EXCEPT ![reviewerAddress] = Append(@, newReviewId)],
     usedNullifiers |-> st.usedNullifiers \cup {nullifier}]

\* the storage state ReviewStorage.addReview leaves when it goes through
AddReview(st, productId, reviewerAddress, content, rating, nullifier, serviceName) ==
    LET newReviewId == st.reviewCount + 1 IN
    [reviewCount |-> newReviewId,
     reviews |-> Append(st.reviews,
         [id |-> newReviewId, productId |-> productId,
          reviewer |-> reviewerAddress, content |-> content,
          rating |-> rating, nullifier |-> nullifier,
          timestamp |-> blockTime, serviceName |-> serviceName]),
     productReviews |-> [st.productReviews EXCEPT ![productId] = Append(@, newReviewId)],
     reviewerReviews |-> [st.reviewerReviews EXCEPT ![reviewerAddress] = Append(@, newReviewId)],
     usedNullifiers |-> st.usedNullifiers \cup {nullifier}]

\* a transaction calling ReviewStorage.addReview of instance s directly
AddReviewTx(s, productId, reviewerAddress, content, rating, nullifier, serviceName) ==
    /\ realization = "ledger"
    /\ IF AddReviewStatus(stor[s], reviewerAddress, rating, nullifier) # "ok"
       THEN stor' = stor
       ELSE /\ TotalReviews < MaxReviews
            /\ stor' = [stor EXCEPT ![s] = AddReview(@, productId, reviewerAddress, content,
                                                     rating, nullifier, serviceName)]
    /\ UNCHANGED <<realization, backendVars, storageContract, productCount, products,
                   reviewers, services, blockTime, submitted, verifiedProofs>>

\* Step 3 of ReviewRegistry.submitReview
ProductAfterReview(product, productId, rating) ==
    IF product.id = ZeroId
    THEN [id |-> productId, name |-> "Unknown Product",
          manufacturer |-> "Unknown Manufacturer",
          totalRating |-> rating, reviewCount |-> 1]
    ELSE [product EXCEPT !.totalRating = @ + rating, !.reviewCount = @ + 1]

\* ReviewerAfterReview that leaves the reputation of a known reviewer alone
ReviewerAfterReview_NoReputation(reviewer, sender) ==
    IF reviewer.addr = ZeroAddress
    THEN [addr |-> sender, reputation |-> 1, reviewCount |-> 1]
    ELSE [reviewer EXCEPT !.reviewCount = @ + 1]

\* Step 4 of ReviewRegistry.submitReview
ReviewerAfterReview(reviewer, sender) ==
    IF reviewer.addr = ZeroAddress
    THEN [addr |-> sender, reputation |-> 1, reviewCount |-> 1]
    ELSE [reviewer EXCEPT !.reviewCount = @ + 1, !.reputation = @ + 1]

\* ReviewRegistry.submitReview: the revert reason, "ok" when it commits; the
\* only checks are those of storageContract.addReview
SubmitReviewStatus(sender, nullifier, rating) ==
    AddReviewStatus(stor[storageContract], sender, rating, nullifier)

\* a transaction calling ReviewRegistry.submitReview
SubmitReview(sender, nullifier, productId, content, rating, serviceName) ==
    /\ realization = "ledger"
    /\ IF SubmitReviewStatus(sender, nullifier, rating) # "ok"
       THEN UNCHANGED <<stor, productCount, products, reviewers, submitted>>
       ELSE /\ TotalReviews < MaxReviews
            /\ stor' = [stor EXCEPT ![storageContract] =
                   AddReview(@, productId, sender, content, rating, nullifier, serviceName)]
            /\ productCount' = IF products[productId].id = ZeroId
                               THEN productCount + 1 ELSE productCount
            /\ products' = [products EXCEPT ![productId] =
                               ProductAfterReview(@, productId, rating)]
            /\ reviewers' = [reviewers EXCEPT ![sender] = ReviewerAfterReview(@, sender)]
            /\ submitted' = submitted \cup {nullifier}
    /\ UNCHANGED <<realization, backendVars, storageContract, services, blockTime,
                   verifiedProofs>>

\* ReviewRegistry.registerProduct: the revert reason, "ok" when it commits
RegisterProductStatus(productId) ==
    IF products[productId].id # ZeroId THEN "Product already registered" ELSE "ok"

\* a transaction calling ReviewRegistry.registerProduct
RegisterProduct(sender, productId, name, manufacturer) ==
    /\ realization = "ledger"
    /\ IF RegisterProductStatus(productId) # "ok"
       THEN UNCHANGED <<productCount, products>>
       ELSE /\ productCount < MaxProductCount
            /\ productCount' = productCount + 1
            /\ products' = [products EXCEPT ![productId] =
                   [id |-> productId, name |-> name, manufacturer |-> manufacturer,
                    totalRating |-> 0, reviewCount |-> 0]]
    /\ UNCHANGED <<realization, backendVars, stor, storageContract, reviewers, services,
                   blockTime, submitted, verifiedProofs>>

\* GetProduct with the average rounded up
GetProduct_RoundUp(productId) ==
    LET product == products[productId] IN
    IF product.id = ZeroId
    THEN [name |-> "Unknown Product", manufacturer |-> "Unknown Manufacturer",
          averageRating |-> 0, reviewCount |-> 0]
    ELSE [name |-> product.name, manufacturer |-> product.manufacturer,
          averageRating |-> IF product.reviewCount > 0
                            THEN (product.totalRating + product.reviewCount - 1)
                                    \div product.reviewCount
                            ELSE 0,
          reviewCount |-> product.reviewCount]

\* ReviewRegistry.getProduct (a view function): the values it returns
GetProduct(productId) ==
    LET product == products[productId] IN
    IF product.id = ZeroId
    THEN [name |-> "Unknown Product", manufacturer |-> "Unknown Manufacturer",
          averageRating |-> 0, reviewCount |-> 0]
    ELSE [name |-> product.name, manufacturer |-> product.manufacturer,
          averageRating |-> IF product.reviewCount > 0
                            THEN product.totalRating \div product.reviewCount
                            ELSE 0,
          reviewCount |-> product.reviewCount]

\* ReviewRegistry.addService: the revert reason, "ok" when it commits
AddServiceStatus(sender, name, domain) ==
    IF sender # Owner THEN "OwnableUnauthorizedAccount"
    ELSE IF name = "" THEN "Name cannot be empty"
    ELSE IF domain = "" THEN "Domain cannot be empty"
    ELSE IF services[name].isSupported THEN "Service already supported"
    ELSE "ok"

\* a transaction calling ReviewRegistry.addService
AddService(sender, name, domain) ==
    /\ realization = "ledger"
    /\ IF AddServiceStatus(sender, name, domain) # "ok"
       THEN services' = services
       ELSE services' = [services EXCEPT ![name] =
                [name |-> name, domain |-> domain, isSupported |-> TRUE]]
    /\ UNCHANGED <<realization, backendVars, stor, storageContract, productCount, products,
                   reviewers, blockTime, submitted, verifiedProofs>>

\* ReviewRegistry.removeService: the revert reason, "ok" when it commits
RemoveServiceStatus(sender, name) ==
    IF sender # Owner THEN "OwnableUnauthorizedAccount"
    ELSE IF ~services[name].isSupported THEN "Service not supported"
    ELSE "ok"

\* a transaction calling ReviewRegistry.removeService
RemoveService(sender, name) ==
    /\ realization = "ledger"
    /\ IF RemoveServiceStatus(sender, name) # "ok"
       THEN services' = services
       ELSE services' = [services EXCEPT ![name].isSupported = FALSE]
    /\ UNCHANGED <<realization, backendVars, stor, storageContract, productCount, products,
                   reviewers, blockTime, submitted, verifiedProofs>>

\* ReviewRegistry.updateStorageContract: the revert reason, "ok" when it commits
UpdateStorageContractStatus(sender, storageAddr) ==
    IF sender # Owner THEN "OwnableUnauthorizedAccount"
    ELSE IF storageAddr = ZeroAddress THEN "Invalid storage address"
    ELSE "ok"

\* a transaction calling ReviewRegistry.updateStorageContract
UpdateStorageContract(sender, storageAddr) ==
    /\ realization = "ledger"
    /\ IF UpdateStorageContractStatus(sender, storageAddr) # "ok"
       THEN storageContract' = storageContract
       ELSE storageContract' = storageAddr
    /\ UNCHANGED <<realization, backendVars, stor, productCount, products, reviewers,
                   services, blockTime, submitted, verifiedProofs>>

\* ReviewStorage.updateReviewContent: the revert reason, "ok" when it commits
UpdateReviewContentStatus(sender, st, reviewId) ==
    IF ~(reviewId > 0 /\ reviewId <= st.reviewCount) THEN "Invalid review ID"
    ELSE IF sender # st.reviews[reviewId].reviewer THEN "Not the review owner"
    ELSE "ok"

\* a transaction calling ReviewStorage.updateReviewContent of instance s
UpdateReviewContent(sender, s, reviewId, newContent) ==
    /\ realization = "ledger"
    /\ IF UpdateReviewContentStatus(sender, stor[s], reviewId) # "ok"
       THEN stor' = stor
       ELSE stor' = [stor EXCEPT ![s].reviews[reviewId].content = newContent]
    /\ UNCHANGED <<realization, backendVars, storageContract, productCount, products,
                   reviewers, services, blockTime, submitted, verifiedProofs>>

\* DeleteReviewStatus without the test of the sender
DeleteReviewStatus_AnySender(sender, st, reviewId) ==
    IF ~(reviewId > 0 /\ reviewId <= st.reviewCount) THEN "Invalid review ID"
    ELSE "ok"

\* ReviewStorage.deleteReview: the revert reason, "ok" when it commits
DeleteReviewStatus(sender, st, reviewId) ==
    IF ~(reviewId > 0 /\ reviewId <= st.reviewCount) THEN "Invalid review ID"
    ELSE IF ~(sender = st.reviews[reviewId].reviewer \/ sender = Owner)
    THEN "Not authorized to delete"
    ELSE "ok"

\* DeleteReview that also clears the nullifier mark of the review
DeleteReview_ReleaseNullifier(sender, s, reviewId) ==
    /\ realization = "ledger"
    /\ IF DeleteReviewStatus(sender, stor[s], reviewId) # "ok"
       THEN stor' = stor
       ELSE stor' = [stor EXCEPT ![s].reviews[reviewId].content = "",
                                 ![s].usedNullifiers = @ \ {stor[s].reviews[reviewId].nullifier}]
    /\ UNCHANGED <<realization, backendVars, storageContract, productCount, products,
                   reviewers, services, blockTime, submitted, verifiedProofs>>

\* a transaction calling ReviewStorage.deleteReview of instance s
DeleteReview(sender, s, reviewId) ==
    /\ realization = "ledger"
    /\ IF DeleteReviewStatus(sender, stor[s], reviewId) # "ok"
       THEN stor' = stor
       ELSE stor' = [stor EXCEPT ![s].reviews[reviewId].content = ""]
    /\ UNCHANGED <<realization, backendVars, storageContract, productCount, products,
                   reviewers, services, blockTime, submitted, verifiedProofs>>

\* ReviewStorage.isNullifierUsed (a view function)
IsNullifierUsed(st, nullifier) == nullifier \in st.usedNullifiers

\* ReviewStorage.getProductReviews and getReviewerReviews (view functions)
GetProductReviews(st, productId) == st.productReviews[productId]
GetReviewerReviews(st, reviewer) == st.reviewerReviews[reviewer]

\* ReviewStorage.getReview: the revert reason, "ok" when it returns the review
GetReviewStatus(st, reviewId) ==
    IF ~(reviewId > 0 /\ reviewId <= st.reviewCount) THEN "Invalid review ID" ELSE "ok"

\* the SDK verifier accepts a proof carrying the nullifier (verifyProofWithSDK
\* of the proof generator component)
VerifyProofWithSDK(nullifier) ==
    /\ realization = "ledger"
    /\ verifiedProofs' = verifiedProofs \cup {nullifier}
    /\ UNCHANGED <<realization, backendVars, stor, storageContract, productCount, products,
                   reviewers, services, blockTime, submitted>>

\* a later block
AdvanceTime ==
    /\ realization = "ledger"
    /\ blockTime < MaxTime
    /\ blockTime' = blockTime + 1
    /\ UNCHANGED <<realization, backendVars, stor, storageContract, productCount, products,
                   reviewers, services, submitted, verifiedProofs>>

InitLedger ==
    /\ stor = [s \in Storages |-> EmptyStorage]
    /\ storageContract = "S1"
    /\ productCount = 0
    /\ products = [p \in ProductIds |-> NoProduct]
    /\ reviewers = [a \in Accounts |-> NoReviewer]
    /\ services = [n \in ServiceNames |-> NoService]
    /\ blockTime = 0
    /\ submitted = {}
    /\ verifiedProofs = {}

\* arguments of the submitReview transactions: both senders, both products
\* and both contents with ratings at the two ends of the accepted range, and
\* the two ratings next to the range
SubmitCalls ==
    { [sender |-> "A1", productId |-> "P1", content |-> "good", rating |-> 5],
      [sender |-> Owner, productId |-> "P1", content |-> "good", rating |-> 1],
      [sender |-> "A1", productId |-> ZeroId, content |-> "", rating |-> 1],
      [sender |-> Owner, productId |-> ZeroId, content |-> "good", rating |-> 5],
      [sender |-> "A1", productId |-> "P1", content |-> "good", rating |-> 0],
      [sender |-> "A1", productId |-> "P1", content |-> "good", rating |-> 6] }

\* arguments of the direct calls to ReviewStorage.addReview
DirectCalls ==
    { [reviewer |-> "A1", productId |-> "P1", rating |-> 5],
      [reviewer |-> "A1", productId |-> ZeroId, rating |-> 5],
      [reviewer |-> ZeroAddress, productId |-> "P1", rating |-> 5],
      [reviewer |-> "A1", productId |-> "P1", rating |-> 0] }

\* transactions on the review contracts within one block
NextLedger ==
    \/ \E s \in Storages, d \in DirectCalls, nf \in Nullifiers :
          AddReviewTx(s, d.productId, d.reviewer, "good", d.rating, nf, "Gumroad")
    \/ \E c \in SubmitCalls, nf \in Nullifiers :
          SubmitReview(c.sender, nf, c.productId, c.content, c.rating, "Gumroad")
    \/ \E a \in Accounts, p \in ProductIds : RegisterProduct(a, p, "Widget", "Acme")
    \/ \E a \in Accounts, sa \in Storages \cup {ZeroAddress} : UpdateStorageContract(a, sa)
    \/ \E a \in Accounts, s \in Storages, i \in 0..MaxReviews, c \in Contents :
          UpdateReviewContent(a, s, i, c)
    \/ \E a \in Accounts, s \in Storages, i \in 0..MaxReviews : DeleteReview(a, s, i)

\* the submission path of the proof generator component and of callers that
\* skip it, over several blocks, with the owner managing the service list
NextSdk ==
    \/ \E nf \in ProvenNullifiers : VerifyProofWithSDK(nf)
    \/ \E a \in Accounts, nm \in NameInputs, d \in {"", "gumroad.com"} : AddService(a, nm, d)
    \/ \E a \in Accounts, nm \in ServiceNames : RemoveService(a, nm)
    \/ AdvanceTime
    \/ \E s \in Storages, d \in DirectCalls, nf \in Nullifiers :
          AddReviewTx(s, d.productId, d.reviewer, "good", d.rating, nf, "Gumroad")
    \/ \E c \in SubmitCalls, nf \in Nullifiers :
          SubmitReview(c.sender, nf, c.productId, c.content, c.rating, "Gumroad")

\* submissions with every uint8 rating around and inside the accepted range,
\* for registered and unregistered products
NextAgg ==
    \/ \E a \in Accounts, nf \in Nullifiers, p \in ProductIds, rt \in 0..6 :
          SubmitReview(a, nf, p, "good", rt, "Gumroad")
    \/ \E a \in Accounts, p \in ProductIds : RegisterProduct(a, p, "Widget", "Acme")

\* reviews submitted through the registry and then edited or deleted
NextEdit ==
    \/ \E c \in SubmitCalls, nf \in Nullifiers :
          SubmitReview(c.sender, nf, c.productId, c.content, c.rating, "Gumroad")
    \/ \E a \in Accounts, s \in Storages, i \in 0..MaxReviews, c \in Contents :
          UpdateReviewContent(a, s, i, c)
    \/ \E a \in Accounts, s \in Storages, i \in 0..MaxReviews : DeleteReview(a, s, i)
    \/ \E a \in Accounts, sa \in Storages : UpdateStorageContract(a, sa)

vars == <<realization, backendVars, ledgerVars>>

InitB == realization = "centralized" /\ InitBackend /\ InitLedger
InitL == realization = "ledger" /\ InitBackend /\ tableColumns = RatedColumns /\ InitLedger

Init == InitB \/ InitL

Next == NextBackend \/ NextLedger

SpecB == InitB /\ [][NextBackend]_vars
SpecL == InitL /\ [][NextLedger]_vars
SpecSdk == InitL /\ [][NextSdk]_vars
SpecAgg == InitL /\ [][NextAgg]_vars
SpecEdit == InitL /\ [][NextEdit]_vars
SpecV == InitB /\ [][NextVerify]_vars

Spec == Init /\ [][Next]_vars

\* The backend with the scheduling its code relies on: sqlite3 calls back
\* for every db.get and db.run, so the SELECT and the INSERT of a request are
\* eventually answered. The awaits on sdk.getBlueprint and
\* blueprint.verifyProof have no timer beside them; they resume only when
\* the SDK settles its promise.
SpecBFair ==
    SpecB /\ \A r \in Reqs : WF_vars(Lookup(r)) /\ WF_vars(Insert(r))

(***************************************************************************)
(* Properties of the centralized backend                                  *)
(***************************************************************************)
\* requests that passed the validation of server.ts:155-216
Passed(r) == req[r].pc # "idle" /\ req[r].body.proofObject.present
NullifierOf(r) == EmailNullifier(req[r].body).s

RaceMessage == "Review already submitted (race condition)."
FastPathMessage == "Review already submitted for this purchase email."

\* C1: in every reachable state of the reviews table, under any interleaving
\* of the SELECT, verifier and INSERT steps of concurrent submissions, at
\* most one row exists per emailNullifier value.
C1_OneRowPerNullifier ==
    \A i, j \in 1..Len(rows) :
        rows[i].emailNullifier = rows[j].emailNullifier => i = j

\* two submissions of one nullifier both passed the SELECT; the INSERT of the
\* second was refused by the table
C1_Witness ==
    \E r1, r2 \in Reqs :
        /\ r1 # r2
        /\ resp[r1].status = 200
        /\ resp[r2].status = 409 /\ resp[r2].message = RaceMessage
        /\ NullifierOf(r1) = NullifierOf(r2)

\* the submissions that carry nullifier nf
Carrying(nf) == {r \in Reqs : Passed(r) /\ NullifierOf(r) = nf}

\* C2: when the submissions carrying one fresh nullifier have all been
\* answered and the verifier rejected none of them, exactly one got the
\* success response and every other one got 409; none got an internal error.
C2_ExactlyOneAccepted ==
    \A nf \in Nullifiers :
        LET G == Carrying(nf) IN
        (/\ G # {}
         /\ \A r \in G : req[r].pc = "done"
         /\ \A r \in G : resp[r].message \notin
                {"Proof verification failed.", "Error during verification process."})
        => /\ Cardinality({r \in G : resp[r].status = 200}) = 1
           /\ \A r \in G : resp[r].status \in {200, 409}

C9_RowsVerified ==
    /\ \A i \in 1..Len(rows) : rows[i].isVerified /\ req[rows[i].by].isValid
    /\ \A r \in Reqs :
         resp[r].message \in {"Proof verification failed.", "Error during verification process."}
         => \A i \in 1..Len(rows) : rows[i].by # r

\* one request inserted a row, the proof of another one was rejected and a
\* third verification threw
C9_Witness ==
    /\ Len(rows) >= 1
    /\ \E r \in Reqs : resp[r].message = "Proof verification failed."
    /\ \E r \in Reqs : resp[r].message = "Error during verification process."

(***************************************************************************)
(* Properties of the ledger realization                                    *)
(***************************************************************************)
NullifierUsed == "Storage: Nullifier already used"

\* the nullifiers of the reviews stored in a ReviewStorage state
StoredNullifiers(st) == {st.reviews[i].nullifier : i \in 1..Len(st.reviews)}

NoSharedNullifier ==
    \A s \in Storages : \A i, j \in 1..Len(stor[s].reviews) :
        stor[s].reviews[i].nullifier = stor[s].reviews[j].nullifier => i = j

\* a call with a rating in 1..5 by one of the reviewers rvs commits iff no
\* stored review of that storage has its nullifier, and reverts with the
\* nullifier-already-used error otherwise
FirstCommitsOthersRevert(rvs) ==
    /\ \A s \in Storages, rv \in rvs, rt \in 1..5, nf \in Nullifiers :
          AddReviewStatus(stor[s], rv, rt, nf) =
             IF nf \in StoredNullifiers(stor[s]) THEN NullifierUsed ELSE "ok"
    /\ \A a \in Accounts, rt \in 1..5, nf \in Nullifiers :
          SubmitReviewStatus(a, nf, rt) =
             IF nf \in StoredNullifiers(stor[storageContract]) THEN NullifierUsed ELSE "ok"

\* C3 as stated: no two stored reviews of one ReviewStorage share a
\* nullifier, and every addReview / submitReview transaction with a rating in
\* 1..5 commits when its nullifier is fresh and reverts with the
\* nullifier-already-used error when it is not.
C3_AsStated ==
    NoSharedNullifier /\ FirstCommitsOthersRevert(Accounts \cup {ZeroAddress})

\* C3 amended: the same for the transactions whose reviewer address is not
\* zero; stored reviews keep their nullifier, so that after the first commit
\* every later transaction with that nullifier reverts.
C3_FirstCommitsOthersRevert ==
    /\ [](NoSharedNullifier /\ FirstCommitsOthersRevert(Accounts))
    /\ [][\A s \in Storages : \A i \in 1..Len(stor[s].reviews) :
             /\ Len(stor'[s].reviews) >= i
             /\ stor'[s].reviews[i].nullifier = stor[s].reviews[i].nullifier]_vars

\* one storage holds reviews for both nullifiers, one of them added through
\* the registry and one by a direct call
C3_Witness ==
    \E s \in Storages :
        /\ Len(stor[s].reviews) = 2
        /\ Cardinality(submitted) = 1
        /\ \A nf \in Nullifiers : SubmitReviewStatus("A1", nf, 5) = NullifierUsed

\* C4 as stated: once a nullifier was accepted through submitReview, every
\* later submitReview with it is rejected, as a duplicate when its rating is
\* in range.
C4_AsStated ==
    \A nf \in submitted, a \in Accounts, rt \in RatingInputs :
        /\ SubmitReviewStatus(a, nf, rt) # "ok"
        /\ rt \in 1..5 => SubmitReviewStatus(a, nf, rt) = NullifierUsed

RECURSIVE SumRatings(_)
SumRatings(revs) ==
    IF revs = <<>> THEN 0 ELSE Head(revs).rating + SumRatings(Tail(revs))

\* the reviews of product p stored in a ReviewStorage state
ReviewsOfProduct(st, p) == SelectSeq(st.reviews, LAMBDA rv : rv.productId = p)
ReviewsOfReviewer(st, a) == SelectSeq(st.reviews, LAMBDA rv : rv.reviewer = a)

\* C6 as stated: for every product id p, totalRating is the sum of the
\* ratings of all stored reviews for p and reviewCount is their number.
C6_AsStated ==
    \A p \in ProductIds :
        /\ products[p].totalRating =
              SumRatings(ReviewsOfProduct(stor["S1"], p)) + SumRatings(ReviewsOfProduct(stor["S2"], p))
        /\ products[p].reviewCount =
              Len(ReviewsOfProduct(stor["S1"], p)) + Len(ReviewsOfProduct(stor["S2"], p))

\* C7 as stated: a review is stored iff its aggregate effects are there:
\* every reviewer's reviewCount is the number of stored reviews of that
\* reviewer, and a product has a positive reviewCount iff a review is stored
\* for it.
C7_AsStated ==
    /\ \A a \in Accounts :
          reviewers[a].reviewCount =
             Len(ReviewsOfReviewer(stor["S1"], a)) + Len(ReviewsOfReviewer(stor["S2"], a))
    /\ \A p \in ProductIds :
          (products[p].reviewCount > 0) <=>
             (\E s \in Storages : Len(ReviewsOfProduct(stor[s], p)) > 0)

\* C10 as stated: every stored review carries the nullifier of a proof that
\* the verifier accepted.
C10_AsStated ==
    \A s \in Storages : \A i \in 1..Len(stor[s].reviews) :
        stor[s].reviews[i].nullifier \in verifiedProofs

(***************************************************************************)
(* Properties of both realizations                                         *)
(***************************************************************************)
\* C8: no stored row or review has a rating outside 1..5; a backend request
\* that reached the database has an integer rating in 1..5, and addReview and
\* submitReview revert for every rating outside 1..5.
C8_RatingBound ==
    /\ \A i \in 1..Len(rows) : rows[i].rating \in 1..5
    /\ \A r \in Reqs :
          req[r].pc \in {"lookup", "verify", "insert"}
          => /\ req[r].body.rating.t = "number"
             /\ req[r].body.rating.int
             /\ req[r].body.rating.n \in 1..5
    /\ \A r \in Reqs :
          resp[r].status = 200 => req[r].body.rating.int /\ req[r].body.rating.n \in 1..5
    /\ \A s \in Storages : \A i \in 1..Len(stor[s].reviews) :
          stor[s].reviews[i].rating \in 1..5
    /\ \A s \in Storages, rv \in Accounts, rt \in RatingInputs \ (1..5), nf \in Nullifiers :
          /\ AddReviewStatus(stor[s], rv, rt, nf) # "ok"
          /\ SubmitReviewStatus(rv, nf, rt) # "ok"

\* rows with the ratings 1 and 5 are stored
C8_Witness ==
    /\ \E i \in 1..Len(rows) : rows[i].rating = 1
    /\ \E i \in 1..Len(rows) : rows[i].rating = 5

\* C11: a submission rejected as a duplicate changes nothing: the backend
\* step that answers a request with 409 leaves the reviews table as it was,
\* and a submitReview transaction that reverts with the nullifier-already-used
\* error leaves the storage contracts, productCount, every product and every
\* reviewer as they were.
C11_DuplicateChangesNothing ==
    [][ /\ \A r \in Reqs :
             (resp[r].status = 0 /\ resp'[r].status = 409) => rows' = rows
        /\ \A c \in SubmitCalls, nf \in Nullifiers :
             (/\ SubmitReviewStatus(c.sender, nf, c.rating) = NullifierUsed
              /\ SubmitReview(c.sender, nf, c.productId, c.content, c.rating, "Gumroad"))
             => UNCHANGED <<stor, productCount, products, reviewers>> ]_vars

\* a resubmission of the stored nullifier with another rating and text went
\* through the verifier and was refused by the INSERT; the table holds the
\* one row of the first submission
C11_Witness ==
    \E r \in Reqs :
        /\ resp[r].status = 409 /\ resp[r].message = RaceMessage
        /\ Len(rows) = 1
        /\ rows[1].emailNullifier = NullifierOf(r)
        /\ rows[1].by # r
        /\ rows[1].rating = 5 /\ req[r].body.rating.n = 3
\* the inputs C12 names: no proof, review text that is not a string with a
\* character other than white space, blueprint id that is not a non-empty
\* string, rating that is not an integer in 1..5
InvalidInput(body) ==
    \/ ~body.proofObject.present
    \/ body.reviewText.t # "string" \/ body.reviewText.s \in {"", " ", "  "}
    \/ body.blueprintId.t # "string" \/ body.blueprintId.s = ""
    \/ body.rating.t # "number" \/ ~body.rating.int \/ body.rating.n \notin 1..5

\* C12: a submission with such an input is answered 400 by the validation;
\* every request that got as far as the SELECT, the verifier or the INSERT
\* carries none of these faults; the step that rejects a request on arrival
\* answers 400 and leaves the table alone, and the request never runs the
\* verifier.
C12_InvalidInputRejected ==
    /\ [](\A b \in Bodies : InvalidInput(b) => Validate(b).status = 400)
    /\ [](\A r \in Reqs : Passed(r) => ~InvalidInput(req[r].body))
    /\ [][\A r \in Reqs :
            (req[r].pc = "idle" /\ req'[r].pc = "done")
            => /\ resp'[r].status = 400
               /\ rows' = rows
               /\ ~req'[r].isValid]_vars

\* one request was rejected for its blueprint id and one for its rating
\* while the table is still empty
C12_Witness ==
    /\ rows = <<>>
    /\ \E r \in Reqs : resp[r] = Reply(400, "Blueprint ID is required.")
    /\ \E r \in Reqs :
          resp[r] = Reply(400, "Invalid rating value. Must be an integer between 1 and 5.")
VerifierErrorMessage == "Error during verification process."

\* C13 as stated: a submission whose verifier call threw is answered with
\* the verifier error, not with the rejected-proof answer, and has written no
\* row; a resubmission of the same body that the verifier accepted, while
\* every other submission of that nullifier ended with the verifier error,
\* is answered with the success response.
C13_AsStated ==
    /\ \A r \in Reqs :
          resp[r].message = VerifierErrorMessage
          => /\ resp[r].status = 500
             /\ \A i \in 1..Len(rows) : rows[i].by # r
    /\ \A r \in Reqs :
          (/\ req[r].pc = "done" /\ req[r].isValid
           /\ \E r0 \in Reqs \ {r} :
                 /\ resp[r0].message = VerifierErrorMessage
                 /\ req[r0].body = req[r].body
           /\ \A r2 \in Carrying(NullifierOf(r)) \ {r} :
                 resp[r2].message = VerifierErrorMessage)
          => resp[r].status = 200

\* C14 as stated: any two submissions rejected as duplicates got the same
\* response, whichever of the SELECT and the INSERT detected the duplicate.
C14_AsStated ==
    \A r1, r2 \in Reqs :
        (resp[r1].status = 409 /\ resp[r2].status = 409) => resp[r1] = resp[r2]
\* the reason codes a response stands for
ReasonCodes(rp) ==
    {c \in {"invalid-input", "duplicate", "invalid-proof", "verifier-unavailable", "internal"} :
        CASE c = "invalid-input" ->
               /\ rp.status = 400
               /\ rp.message \in
                    {"Proof object and review text are required.",
                     "Blueprint ID is required.",
                     "Invalid rating value. Must be an integer between 1 and 5.",
                     "Malformed proof object received (missing props or publicOutputs).",
                     "Invalid proof: Not enough public outputs",
                     "Invalid proof: Nullifier missing or invalid at expected index"}
          [] c = "duplicate" ->
               rp.status = 409 /\ rp.message \in {FastPathMessage, RaceMessage}
          [] c = "invalid-proof" ->
               rp.status = 400 /\ rp.message = "Proof verification failed."
          [] c = "verifier-unavailable" ->
               rp.status = 500 /\ rp.message = VerifierErrorMessage
          [] c = "internal" ->
               rp.status = 500 /\ rp.message = "Failed to save review."}

C16_AsStated ==
    \A r \in Reqs : (req[r].pc # "idle") ~> (req[r].pc = "done")
\* C17 as stated: a well-formed submission that the verifier accepted and
\* that is the only one carrying its nullifier got the success response, and
\* the table holds exactly one row with that nullifier, which has the
\* submitted review text, rating and blueprint id and the service name
\* derived from the blueprint id.
C17_AsStated ==
    \A r \in Reqs :
        (/\ req[r].pc = "done" /\ req[r].isValid
         /\ Carrying(NullifierOf(r)) = {r})
        => /\ resp[r].status = 200
           /\ Cardinality(RowsWithNullifier(NullifierOf(r))) = 1
           /\ \A i \in RowsWithNullifier(NullifierOf(r)) :
                 /\ rows[i].reviewText = req[r].body.reviewText.s
                 /\ rows[i].rating = req[r].body.rating.n
                 /\ rows[i].blueprintId = req[r].body.blueprintId.s
                 /\ rows[i].serviceName = ServiceName(req[r].body.blueprintId.s)
\* C18 as stated: every array the list endpoint may return is ordered by
\* createdAt descending with equal createdAt in ascending id order, so that
\* the table content determines the array.
C18_AsStated ==
    /\ \A l \in ReviewsListings : \A a, b \in DOMAIN l :
          a < b => \/ l[a].createdAt > l[b].createdAt
                   \/ l[a].createdAt = l[b].createdAt /\ l[a].id < l[b].id
    /\ Cardinality(ReviewsListings) <= 1
\* the proof shapes C19 names: no props, no publicOutputs array, fewer than
\* four public outputs, or a value at index 3 that is not a string with a
\* character other than white space
MalformedProof(body) ==
    LET outs == body.proofObject.publicOutputs IN
    \/ ~body.proofObject.hasProps
    \/ ~body.proofObject.outputsIsArray
    \/ Len(outs) < 4
    \/ Len(outs) >= 4 /\ (outs[4].t # "string" \/ outs[4].s \in {"", " ", "  "})

\* C19: a submission with such a proof is answered 400 by the validation;
\* no request at the SELECT, at the verifier or at the INSERT, and no request
\* that was answered after them, carries such a proof; a request answered on
\* arrival is finished by that answer and the table is left alone.
C19_NullifierFailsClosed ==
    /\ [](\A b \in Bodies : MalformedProof(b) => Validate(b).status = 400)
    /\ [](\A r \in Reqs :
            req[r].pc \in {"lookup", "verify", "insert"} \/ Passed(r)
            => ~MalformedProof(req[r].body))
    /\ [][\A r \in Reqs :
            (req[r].pc = "idle" /\ resp'[r].status # 0)
            => /\ req'[r].pc = "done"
               /\ rows' = rows]_vars

\* one submission was rejected for a short publicOutputs array and one for
\* the value at the nullifier index, and nothing was stored
C19_Witness ==
    /\ rows = <<>>
    /\ \E r \in Reqs : resp[r] = Reply(400, "Invalid proof: Not enough public outputs")
    /\ \E r \in Reqs :
          resp[r] = Reply(400, "Invalid proof: Nullifier missing or invalid at expected index")

\* C20 as stated: no row is stored for a submission whose proof has no
\* non-empty subject list, and no row carries the placeholder product name.
C20_AsStated ==
    \A i \in 1..Len(rows) :
        /\ Len(req[rows[i].by].body.proofObject.subject) > 0
        /\ rows[i].productName # "Unknown Product"
\* the request body that carries a ledger submission (nullifier, content,
\* rating) to the backend handler
SubmissionBody(nullifier, content, rating) ==
    [proofObject |-> Proof(Outputs(Str(nullifier)), <<"Widget">>),
     reviewText |-> Str(content),
     blueprintId |-> Str(GumroadId),
     rating |-> Num(rating)]

\* C21 as stated: the registry accepts exactly what the backend handler
\* accepts: every review stored through ReviewRegistry.submitReview is a
\* submission that the validation of the backend handler lets pass and whose
\* proof the verifier accepted.
C21_AsStated ==
    \A i \in 1..Len(stor[storageContract].reviews) :
        LET rv == stor[storageContract].reviews[i] IN
        rv.nullifier \in submitted
        => /\ Validate(SubmissionBody(rv.nullifier, rv.content, rv.rating)).status = 0
           /\ rv.nullifier \in verifiedProofs

\* C22 as stated: no stored row has a blank review text and no stored review
\* of any ReviewStorage has empty content.
C22_AsStated ==
    /\ \A i \in 1..Len(rows) : rows[i].reviewText \notin {"", " ", "  "}
    /\ \A s \in Storages : \A i \in 1..Len(stor[s].reviews) :
          stor[s].reviews[i].content # ""
\* C23: in every ReviewStorage the stored reviews are those with the ids
\* 1..reviewCount, reviews[i].id = i, and getReview(i) goes through exactly
\* for these ids; a step leaves reviewCount as it is or stores one review
\* under the id reviewCount + 1, and never changes the id of a stored review
\* (so deleteReview frees no id and reviewCount never decreases).
C23_SequentialIds ==
    /\ [](\A s \in Storages :
            /\ Len(stor[s].reviews) = stor[s].reviewCount
            /\ \A i \in 1..stor[s].reviewCount : stor[s].reviews[i].id = i
            /\ \A i \in 0..(MaxReviews + 2) :
                  (GetReviewStatus(stor[s], i) = "ok") <=> (i >= 1 /\ i <= stor[s].reviewCount))
    /\ [][\A s \in Storages :
            /\ stor'[s].reviewCount \in {stor[s].reviewCount, stor[s].reviewCount + 1}
            /\ \A i \in 1..stor[s].reviewCount :
                  stor'[s].reviews[i].id = stor[s].reviews[i].id
            /\ stor'[s].reviewCount = stor[s].reviewCount + 1
               => stor'[s].reviews[stor[s].reviewCount + 1].id = stor[s].reviewCount + 1]_vars

\* a storage holds two reviews, the first of which was deleted
C23_Witness ==
    \E s \in Storages :
        /\ stor[s].reviewCount = 2
        /\ stor[s].reviews[1].productId = "P1"
        /\ stor[s].reviews[1].content = ""
        /\ stor[s].reviews[2].id = 2
C26_AsStated ==
    [][\A a \in Accounts, nf \in Nullifiers, p \in ProductIds, rt \in 0..6 :
          (/\ SubmitReviewStatus(a, nf, rt) = "ok"
           /\ SubmitReview(a, nf, p, "good", rt, "Gumroad"))
          => IF products[p] = NoProduct
             THEN /\ products'[p] =
                        [id |-> p, name |-> "Unknown Product",
                         manufacturer |-> "Unknown Manufacturer",
                         totalRating |-> rt, reviewCount |-> 1]
                  /\ productCount' = productCount + 1
             ELSE /\ products'[p] = [products[p] EXCEPT !.totalRating = @ + rt,
                                                         !.reviewCount = @ + 1]
                  /\ productCount' = productCount]_vars
\* the ids of a sequence of reviews, in its order
IdsOf(revs) == [k \in 1..Len(revs) |-> revs[k].id]

\* C27: in every ReviewStorage, getProductReviews(p) is the ascending list of
\* the ids of the stored reviews whose productId is p, getReviewerReviews(a)
\* that of the stored reviews whose reviewer is a, and every review id is in
\* exactly one product list and exactly one reviewer list, once.
C27_IndexLists ==
    \A s \in Storages :
        LET st == stor[s] IN
        /\ \A p \in ProductIds :
              GetProductReviews(st, p) = IdsOf(ReviewsOfProduct(st, p))
        /\ \A a \in Accounts :
              GetReviewerReviews(st, a) = IdsOf(ReviewsOfReviewer(st, a))
        /\ \A p \in ProductIds : \A j, k \in 1..Len(GetProductReviews(st, p)) :
              j < k => GetProductReviews(st, p)[j] < GetProductReviews(st, p)[k]
        /\ \A i \in 1..st.reviewCount :
              /\ Cardinality({<<p, k>> \in ProductIds \X (1..st.reviewCount) :
                      k <= Len(GetProductReviews(st, p))
                      /\ GetProductReviews(st, p)[k] = i}) = 1
              /\ Cardinality({<<a, k>> \in Accounts \X (1..st.reviewCount) :
                      k <= Len(GetReviewerReviews(st, a))
                      /\ GetReviewerReviews(st, a)[k] = i}) = 1

\* one storage lists review 1 under the zero product id and review 2 under
\* P1, and both under one reviewer
C27_Witness ==
    \E s \in Storages :
        /\ GetProductReviews(stor[s], ZeroId) = <<1>>
        /\ GetProductReviews(stor[s], "P1") = <<2>>
        /\ GetReviewerReviews(stor[s], "A1") = <<1, 2>>
\* C28: a call of the verify endpoint, whatever the proof and the verifier's
\* answer, leaves the reviews table and every other request as they were;
\* rows are only ever written by review submissions; and with any number of
\* verify calls around it, a verified submission that is the only one
\* carrying its nullifier is still accepted by a table that has the columns
\* of the INSERT.
C28_VerifyHasNoSideEffect ==
    /\ [][\A r \in Reqs, body \in VerifyBodies, o \in VerifierOutcomes :
            VerifyGumroadProof(r, body, o)
            => /\ rows' = rows
               /\ tableColumns' = tableColumns
               /\ \A r2 \in Reqs \ {r} : req'[r2] = req[r2] /\ resp'[r2] = resp[r2]]_vars
    /\ [](\A i \in 1..Len(rows) :
            /\ Passed(rows[i].by)
            /\ resp[rows[i].by].message = "Review submitted and verified!")
    /\ [](\A r \in Reqs :
            (/\ InsertColumns \subseteq tableColumns
             /\ req[r].pc = "done" /\ req[r].isValid
             /\ Carrying(NullifierOf(r)) = {r})
            => resp[r].status = 200)

\* a proof was accepted by the verify endpoint, another verify call failed,
\* and the submission of the proof's nullifier was stored as the first row
C28_Witness ==
    /\ \E r \in Reqs :
          resp[r] = [status |-> 200, message |-> "", reviewId |-> 0, productName |-> "Widget"]
    /\ \E r \in Reqs : resp[r] = Reply(500, "Error during verification")
    /\ \E r \in Reqs :
          /\ resp[r].status = 200 /\ resp[r].reviewId = 1
          /\ NullifierOf(r) = "N1"
\* C29 as stated: every step that stores a review is a submitReview
\* transaction sent by the account recorded as the reviewer of that review.
\* (addReview never reads msg.sender: a direct call stands for that call
\* sent by any account.)
C29_AsStated ==
    [][\A s \in Storages :
          stor'[s].reviewCount = stor[s].reviewCount + 1
          => \E c \in SubmitCalls, nf \in Nullifiers :
                /\ c.sender = stor'[s].reviews[stor'[s].reviewCount].reviewer
                /\ SubmitReview(c.sender, nf, c.productId, c.content, c.rating, "Gumroad")]_vars

\* the order of the steps of one submission
StepOrder ==
    {<<"idle", "lookup">>, <<"idle", "done">>, <<"lookup", "verify">>, <<"lookup", "done">>,
     <<"verify", "insert">>, <<"verify", "done">>, <<"insert", "done">>}

\* C30: a submission moves only forward through validation and extraction,
\* lookup, verifier call, insert and response, so that each happens at most
\* once; it reaches the verifier only from a lookup that found no row with
\* its nullifier, and a lookup that found one ends it with 409 at once; the
\* verifier's acceptance is recorded only on the way to the insert, a row is
\* written only by the insert step, and the response is sent only by the
\* step that ends the submission.
C30_StepOrder ==
    /\ [][\A r \in Reqs :
            /\ req'[r].pc # req[r].pc => <<req[r].pc, req'[r].pc>> \in StepOrder
            /\ (req[r].pc = "lookup" /\ req'[r].pc = "verify")
               => RowsWithNullifier(NullifierOf(r)) = {}
            /\ (req[r].pc = "lookup" /\ req'[r].pc # "lookup"
                  /\ RowsWithNullifier(NullifierOf(r)) # {})
               => /\ req'[r].pc = "done"
                  /\ resp'[r].status = 409
                  /\ ~req'[r].isValid
            /\ req'[r].isValid # req[r].isValid
               => req[r].pc = "verify" /\ req'[r].pc = "insert"
            /\ (\E i \in 1..Len(rows') : i > Len(rows) /\ rows'[i].by = r)
               => req[r].pc = "insert" /\ req'[r].pc = "done"
            /\ resp'[r] # resp[r] => req[r].pc # "done" /\ req'[r].pc = "done"]_vars
    /\ [](\A r \in Reqs :
            /\ req[r].pc = "insert" => req[r].isValid
            /\ resp[r].message = FastPathMessage => ~req[r].isValid)

\* three submissions of one nullifier: the proof of one was rejected, one was
\* stored, and one was stopped by the lookup before the verifier
C30_Witness ==
    \E r1, r2, r3 \in Reqs :
        /\ resp[r1].message = "Proof verification failed."
        /\ resp[r2].status = 200
        /\ resp[r3].message = FastPathMessage /\ ~req[r3].isValid
        /\ NullifierOf(r1) = NullifierOf(r2) /\ NullifierOf(r2) = NullifierOf(r3)
\* C31: in every ReviewStorage a nullifier is marked used exactly when one
\* stored review carries it, no nullifier is carried by two reviews, and a
\* mark once set stays.
C31_UsedIffStored ==
    /\ [](\A s \in Storages, n \in Nullifiers :
            LET carrying == {i \in 1..Len(stor[s].reviews) : stor[s].reviews[i].nullifier = n} IN
            /\ IsNullifierUsed(stor[s], n) <=> Cardinality(carrying) = 1
            /\ Cardinality(carrying) <= 1)
    /\ [](\A s \in Storages : stor[s].usedNullifiers \subseteq Nullifiers)
    /\ [][\A s \in Storages, n \in Nullifiers :
            IsNullifierUsed(stor[s], n) => IsNullifierUsed(stor'[s], n)]_vars

\* each of the two storage instances has marked the same nullifier for its
\* own review
C31_Witness ==
    /\ stor["S1"].usedNullifiers = {"N2"}
    /\ stor["S2"].usedNullifiers = {"N2"}
    /\ stor["S1"].reviewCount = 1 /\ stor["S2"].reviewCount = 1

\* C32: a step of updateReviewContent or deleteReview changes at most the
\* content of the targeted review: every other field of it, every other
\* review, reviewCount, the index lists and usedNullifiers of every storage,
\* and the registry's aggregates, productCount and storage address stay; so
\* the nullifier of every stored review, deleted or not, is still refused.
C32_OnlyContentChanges ==
    /\ [][\A a \in Accounts, s \in Storages, i \in 0..(MaxReviews + 1) :
            (DeleteReview(a, s, i) \/ \E c \in Contents : UpdateReviewContent(a, s, i, c))
            => /\ \A s2 \in Storages :
                    stor'[s2] =
                       IF s2 = s /\ i \in 1..Len(stor[s].reviews)
                       THEN [stor[s] EXCEPT !.reviews[i].content = stor'[s].reviews[i].content]
                       ELSE stor[s2]
               /\ UNCHANGED <<storageContract, productCount, products, reviewers, services>>]_vars
    /\ [](\A s \in Storages : \A i \in 1..Len(stor[s].reviews) :
            AddReviewStatus(stor[s], "A1", 5, stor[s].reviews[i].nullifier) = NullifierUsed)

\* the review that the registry stored for P1 was deleted, its aggregates are
\* still there, and its nullifier is refused for a new submission
C32_Witness ==
    /\ stor[storageContract].reviewCount = 1
    /\ stor[storageContract].reviews[1].content = ""
    /\ products["P1"].reviewCount = 1
    /\ SubmitReviewStatus("A1", stor[storageContract].reviews[1].nullifier, 5) = NullifierUsed

\* C33: updateReviewContent goes through exactly for an existing id and the
\* review's reviewer, deleteReview exactly for an existing id and the
\* reviewer or the owner; a call that does not go through changes nothing;
\* and a step that changes the content of a stored review is such a call by
\* an account it goes through for.
C33_ContentAuthority ==
    /\ [](\A a \in Accounts, s \in Storages, i \in 0..(MaxReviews + 1) :
            /\ (UpdateReviewContentStatus(a, stor[s], i) = "ok")
                  <=> (i \in 1..stor[s].reviewCount /\ a = stor[s].reviews[i].reviewer)
            /\ (DeleteReviewStatus(a, stor[s], i) = "ok")
                  <=> (i \in 1..stor[s].reviewCount
                       /\ (a = stor[s].reviews[i].reviewer \/ a = Owner)))
    /\ [][\A a \in Accounts, s \in Storages, i \in 0..(MaxReviews + 1) :
            /\ (DeleteReviewStatus(a, stor[s], i) # "ok" /\ DeleteReview(a, s, i))
               => stor' = stor
            /\ \A c \in Contents :
                  (UpdateReviewContentStatus(a, stor[s], i) # "ok"
                     /\ UpdateReviewContent(a, s, i, c))
                  => stor' = stor]_vars
    /\ [][\A s \in Storages : \A i \in 1..Len(stor[s].reviews) :
            stor'[s].reviews[i].content # stor[s].reviews[i].content
            => \E a \in Accounts :
                  \/ /\ a = stor[s].reviews[i].reviewer
                     /\ \E c \in Contents : UpdateReviewContent(a, s, i, c)
                  \/ /\ a = stor[s].reviews[i].reviewer \/ a = Owner
                     /\ DeleteReview(a, s, i)]_vars

\* the owner's review was emptied; the other account may neither update nor
\* delete it, and the owner may delete but not update the other's review
C33_Witness ==
    \E s \in Storages :
        /\ stor[s].reviewCount = 2
        /\ stor[s].reviews[1].reviewer = Owner /\ stor[s].reviews[1].content = ""
        /\ stor[s].reviews[1].productId = "P1"
        /\ stor[s].reviews[2].reviewer = "A1"
        /\ UpdateReviewContentStatus("A1", stor[s], 1) = "Not the review owner"
        /\ DeleteReviewStatus("A1", stor[s], 1) = "Not authorized to delete"
        /\ UpdateReviewContentStatus(Owner, stor[s], 2) = "Not the review owner"
        /\ DeleteReviewStatus(Owner, stor[s], 2) = "ok"

\* C34 as stated: registerProduct goes through only for a product id that
\* does not exist, and productCount is the number of product ids that exist.
C34_AsStated ==
    /\ \A p \in ProductIds : RegisterProductStatus(p) = "ok" => products[p] = NoProduct
    /\ productCount = Cardinality({p \in ProductIds : products[p] # NoProduct})
====
